---- MODULE Spec2Model ----
(***************************************************************************)
(* Model of src/index.ts: the bearer-token identity resolver (getUserId),  *)
(* the HTTP /graphql route handler with its four response modes and the    *)
(* "close" listener of a streaming response, the graphql-ws onConnect and  *)
(* onSubscribe callbacks, and the SIGINT shutdown of the process.          *)
(*                                                                         *)
(* JavaScript values are tagged records ([js |-> "string", s |-> ...]).    *)
(* A string is a sequence of pieces; a piece is a literal fragment or one  *)
(* signed token (a token holds no blank, so the scheme prefix "Bearer "    *)
(* never straddles two pieces).                                            *)
(***************************************************************************)
EXTENDS Integers, Sequences, FiniteSets, TLC

VARIABLES
  pc,           \* where the route handler of the HTTP request stands
  req,          \* the HTTP request
  context,      \* what the handler's contextFactory produced
  result,       \* what processRequest resolved to
  res,          \* the HTTP response: status, headers, frames written
  stream,       \* the engine's incremental result source
  listener,     \* whether the handler's "close" listener is registered
  closed,       \* whether the request's "close" event was emitted
  calls,        \* how often each collaborator was invoked
  ws,           \* the WebSocket connection and what onConnect returned
  args,         \* the arguments of the latest getUserId call
  resolutions,  \* the outcomes of the getUserId calls, in order
  closedAt,     \* where the handler and the response stood at "close"
  op,           \* the subscribe operation of the WebSocket connection
  proc          \* the process: its SIGINT listener, the servers it closed

vars ==
  <<pc, req, context, result, res, stream, listener, closed, calls, ws,
    args, resolutions, closedAt, op, proc>>

(***************************************************************************)
(* Bounds of the model.                                                    *)
(***************************************************************************)
\* longest authorization value / raw token, in pieces
MaxHeaderLen == 2
\* most incremental results the engine yields on one stream
MaxChunks == 2
\* most resolutions of one credential
MaxResolutions == 2

(***************************************************************************)
(* JavaScript values.                                                      *)
(***************************************************************************)
Undefined == [js |-> "undefined"]
Null == [js |-> "null"]
Str(s) == [js |-> "string", s |-> s]
Num(n) == [js |-> "number", n |-> n]

\* ToBoolean, as `if (x)` and `x ? a : b` apply it
Truthy(v) ==
  CASE v.js = "string" -> v.s # <<>>
    [] v.js = "number" -> v.n # 0
    [] v.js = "object" -> TRUE
    [] OTHER -> FALSE

\* property read obj.k: undefined when the object has no such property
Get(obj, k) == IF k \in DOMAIN obj THEN obj[k] ELSE Undefined

Lit(text) == [t |-> "lit", v |-> text]

\* String.prototype.replace(pattern, '') with a string pattern: the FIRST
\* occurrence is removed, wherever it stands; no occurrence, no change
replace(s, piece) ==
  IF \E i \in 1..Len(s) : s[i] = piece
  THEN LET i == CHOOSE k \in 1..Len(s) :
                  s[k] = piece /\ \A j \in 1..(k - 1) : s[j] # piece
       IN  SubSeq(s, 1, i - 1) \o SubSeq(s, i + 1, Len(s))
  ELSE s

(***************************************************************************)
(* Signed tokens (jsonwebtoken).                                           *)
(***************************************************************************)
APP_SECRET == "GraphQL-is-aw3some"
OtherSecret == "not-the-app-secret"

\* the signature of a payload under a secret
Hmac(payload, secret) == <<payload, secret>>

\* jwt.sign(payload, secret): one token, a string of one piece
jwt_sign(payload, secret) ==
  <<[t |-> "jwt", payload |-> payload, sig |-> Hmac(payload, secret)]>>

\* jwt.verify(token, secret): the decoded payload when the string is one
\* well-formed token whose signature is the secret's, else it throws
jwt_verify(token, secret) ==
  IF token.js = "string" /\ Len(token.s) = 1 /\ token.s[1].t = "jwt"
     /\ token.s[1].sig = Hmac(token.s[1].payload, secret)
  THEN [ok |-> TRUE, payload |-> token.s[1].payload]
  ELSE [ok |-> FALSE, error |-> "JsonWebTokenError"]

\* getTokenPayload with the signature left unchecked (jwt.decode for
\* jwt.verify)
getTokenPayload_Unverified(token) ==
  IF token.js = "string" /\ Len(token.s) = 1 /\ token.s[1].t = "jwt"
  THEN [ok |-> TRUE, payload |-> token.s[1].payload]
  ELSE [ok |-> FALSE, error |-> "JsonWebTokenError"]

\* getTokenPayload verifying against a secret that is not the signing one
getTokenPayload_WrongSecret(token) == jwt_verify(token, OtherSecret)

getTokenPayload(token) == jwt_verify(token, APP_SECRET)

(***************************************************************************)
(* getUserId.  The outcome records how the call ended (a returned value or *)
(* a thrown error) and the token strings it handed to getTokenPayload.     *)
(***************************************************************************)
Return(v, verified) == [kind |-> "return", value |-> v, verified |-> verified]
Throw(e, verified) == [kind |-> "throw", error |-> e, verified |-> verified]

\* const { userId } = getTokenPayload(token); return userId;
ReturnUserId(token) ==
  LET decoded == getTokenPayload(token)
  IN  IF decoded.ok
      THEN Return(Get(decoded.payload, "userId"), <<token>>)
      ELSE Throw(decoded.error, <<token>>)

Bearer == Lit("Bearer ")

\* getUserId without the check for an empty token
getUserId_NoEmptyCheck(r, authToken) ==
  IF Truthy(r)
  THEN LET authHeader == Get(r.headers, "authorization")
       IN  IF Truthy(authHeader)
           THEN ReturnUserId(Str(replace(authHeader.s, Bearer)))
           ELSE Throw("Not authenticated", <<>>)
  ELSE IF Truthy(authToken)
       THEN ReturnUserId(authToken)
       ELSE Throw("Not authenticated", <<>>)

\* getUserId returning null, not throwing, when it was given no credential
getUserId_NullForNone(r, authToken) ==
  IF Truthy(r)
  THEN LET authHeader == Get(r.headers, "authorization")
       IN  IF Truthy(authHeader)
           THEN LET token == Str(replace(authHeader.s, Bearer))
                IN  IF ~Truthy(token)
                    THEN Throw("No token found", <<>>)
                    ELSE ReturnUserId(token)
           ELSE Return(Null, <<>>)
  ELSE IF Truthy(authToken)
       THEN ReturnUserId(authToken)
       ELSE Return(Null, <<>>)

getUserId(r, authToken) ==
  IF Truthy(r)
  THEN LET authHeader == Get(r.headers, "authorization")
       IN  IF Truthy(authHeader)
           THEN LET token == Str(replace(authHeader.s, Bearer))
                IN  IF ~Truthy(token)
                    THEN Throw("No token found", <<>>)
                    ELSE ReturnUserId(token)
           ELSE Throw("Not authenticated", <<>>)
  ELSE IF Truthy(authToken)
       THEN ReturnUserId(authToken)
       ELSE Throw("Not authenticated", <<>>)

(***************************************************************************)
(* Inputs: the credentials a client can present.                           *)
(***************************************************************************)
Subjects == {Num(1), Num(2)}

\* tokens issued by jwt.sign under the shared secret; one payload carries
\* no userId field
Issued ==
  {jwt_sign([userId |-> u], APP_SECRET)[1] : u \in Subjects}
    \cup {jwt_sign([sub |-> Num(1)], APP_SECRET)[1]}

\* a token signed under another secret, and a token whose payload was
\* rewritten after signing
Forged ==
  {jwt_sign([userId |-> Num(1)], OtherSecret)[1],
   [t |-> "jwt", payload |-> [userId |-> Num(2)],
    sig |-> Hmac([userId |-> Num(1)], APP_SECRET)]}

Pieces == {Bearer, Lit("x")} \cup Issued \cup Forged

Strings == UNION {[1..n -> Pieces] : n \in 0..MaxHeaderLen}

TextHtml == Lit("text/html")

EmptyMap == <<>>

\* req.headers: each of accept and authorization present or not
HeaderMaps ==
  {a @@ b : a \in {EmptyMap, "accept" :> Str(<<TextHtml>>)},
            b \in {EmptyMap} \cup {"authorization" :> Str(s) : s \in Strings}}

Requests ==
  {[js |-> "object", method |-> m, headers |-> h] :
     m \in {"GET", "POST"}, h \in HeaderMaps}

\* connectionParams of a WebSocket handshake: authToken absent or a string
ConnectionParams == {EmptyMap} \cup {"authToken" :> Str(s) : s \in Strings}

(***************************************************************************)
(* The execution engine (graphql-helix) as the handler sees it.            *)
(***************************************************************************)
\* shouldRenderGraphiQL(request): a GET whose accept header has text/html
shouldRenderGraphiQL(request) ==
  /\ request.method = "GET"
  /\ LET accept == Get(request.headers, "accept")
     IN  accept.js = "string" /\ \E i \in 1..Len(accept.s) : accept.s[i] = TextHtml

NoResult == [type |-> "none"]
Response(status, payload) ==
  [type |-> "RESPONSE", status |-> status, headers |-> {}, payload |-> payload]
Multipart == [type |-> "MULTIPART_RESPONSE"]
Push == [type |-> "PUSH"]

\* the statuses processRequest gives a request it refuses before it builds
\* the context (bad method, no query, syntax or validation error)
RefusalStatuses == {400, 405}

\* the incremental execution results of a stream; data is text. NonAscii
\* stands for one character outside ASCII: one UTF-16 unit, two UTF-8 bytes
NonAscii == "U+00E9"
ChunkData == {<<"a">>, <<NonAscii>>}

\* String.prototype.length and Buffer.from(s, "utf8").length of a text
RECURSIVE StringLength(_)
StringLength(text) ==
  IF text = <<>> THEN 0
  ELSE (IF Head(text) = NonAscii THEN 1 ELSE Len(Head(text))) + StringLength(Tail(text))

RECURSIVE ByteLength(_)
ByteLength(text) ==
  IF text = <<>> THEN 0
  ELSE (IF Head(text) = NonAscii THEN 2 ELSE Len(Head(text))) + ByteLength(Tail(text))

\* JSON.stringify of an execution result {data, hasNext}
JSONstringify(r) ==
  <<"{\"data\":\"">> \o r.data
    \o <<"\",\"hasNext\":", IF r.hasNext THEN "true" ELSE "false", "}">>

\* Array.prototype.join: the elements (texts) with the separator between
RECURSIVE join(_, _)
join(data, sep) ==
  IF Len(data) = 0 THEN <<>>
  ELSE IF Len(data) = 1 THEN data[1]
  ELSE data[1] \o <<sep>> \o join(Tail(data), sep)

CRLF == "\r\n"

(***************************************************************************)
(* The state after the servers are constructed: no request, no connection. *)
(***************************************************************************)
NoArgs == [req |-> Null, authToken |-> Undefined]
NoContext == [state |-> "none"]
NoStream == [yielded |-> <<>>, exhausted |-> FALSE, returned |-> FALSE]
NoCalls ==
  [processRequest |-> 0, contextFactory |-> 0, getUserId |-> 0,
   execute |-> 0, subscribe |-> 0, unsubscribe |-> 0]
FreshResponse ==
  [type |-> "", status |-> 200, headers |-> {}, head |-> <<>>,
   sent |-> <<>>, writes |-> <<>>, ended |-> 0]

\* no "close" was emitted; parts and writes are the counts at the event
NotClosed == [pc |-> "", parts |-> 0, writes |-> 0]
NoOperation == [state |-> "none"]
\* process.once("SIGINT", ...) is registered and every server is up
Started == [sigint |-> TRUE, shutdown |-> <<>>, exited |-> FALSE]

Init ==
  /\ pc = "Idle"
  /\ req = Null
  /\ context = NoContext
  /\ result = NoResult
  /\ res = FreshResponse
  /\ stream = NoStream
  /\ listener = FALSE
  /\ closed = FALSE
  /\ calls = NoCalls
  /\ ws = [state |-> "none"]
  /\ args = NoArgs
  /\ resolutions = <<>>
  /\ closedAt = NotClosed
  /\ op = NoOperation
  /\ proc = Started

(***************************************************************************)
(* The HTTP route handler.  The HTTP route and the WebSocket server share  *)
(* no mutable state (prisma and schema are read only), so a behaviour      *)
(* follows one request or one connection: handler and onConnect are each   *)
(* enabled only while the other transport is untouched, and only while the *)
(* listeners are up.                                                       *)
(***************************************************************************)
\* contextFactory calling getUserId whether or not the request has an
\* authorization header
contextFactory_AlwaysResolves(r) ==
  LET o == getUserId(r, Undefined)
  IN  IF o.kind = "return"
      THEN [kind |-> "return", resolver |-> <<o>>,
            value |-> [prisma |-> "prisma", userId |-> o.value]]
      ELSE [kind |-> "throw", resolver |-> <<o>>, error |-> o.error]

\* contextFactory catching the resolver's error and giving a null identity
contextFactory_Swallows(r) ==
  IF Truthy(r) /\ Truthy(Get(r.headers, "authorization"))
  THEN LET o == getUserId(r, Undefined)
       IN  [kind |-> "return", resolver |-> <<o>>,
            value |-> [prisma |-> "prisma",
                       userId |-> IF o.kind = "return" THEN o.value ELSE Null]]
  ELSE [kind |-> "return", resolver |-> <<>>,
        value |-> [prisma |-> "prisma", userId |-> Null]]

\* the contextFactory the handler passes to processRequest: userId is
\* getUserId(req) when req.headers.authorization is truthy, else null.
\* resolver holds the outcomes of the getUserId calls it made
contextFactory(r) ==
  IF Truthy(r) /\ Truthy(Get(r.headers, "authorization"))
  THEN LET o == getUserId(r, Undefined)
       IN  IF o.kind = "return"
           THEN [kind |-> "return", resolver |-> <<o>>,
                 value |-> [prisma |-> "prisma", userId |-> o.value]]
           ELSE [kind |-> "throw", resolver |-> <<o>>, error |-> o.error]
  ELSE [kind |-> "return", resolver |-> <<>>,
        value |-> [prisma |-> "prisma", userId |-> Null]]

GraphiQLPage ==
  [page |-> "GraphiQL", subscriptionsEndpoint |-> "ws://localhost:4000/graphql"]

\* the handler sending the page and going on to processRequest all the same
\* (the else of the GraphiQL branch lost)
handler_NoElse(request) ==
  /\ pc = "Idle"
  /\ ws.state = "none"
  /\ proc.shutdown = <<>>
  /\ req' = request
  /\ res' = IF shouldRenderGraphiQL(request)
            THEN [res EXCEPT !.type = "text/html",
                             !.sent = Append(@, GraphiQLPage),
                             !.ended = @ + 1]
            ELSE res
  /\ calls' = [calls EXCEPT !.processRequest = @ + 1]
  /\ pc' = "Await"
  /\ UNCHANGED <<context, result, stream, listener, closed, ws, args, resolutions,
                 closedAt, op, proc>>

\* the handler from its entry to the await of processRequest
handler(request) ==
  /\ pc = "Idle"
  /\ ws.state = "none"
  /\ proc.shutdown = <<>>
  /\ req' = request
  /\ IF shouldRenderGraphiQL(request)
     THEN /\ res' = [res EXCEPT !.type = "text/html",
                                !.sent = Append(@, GraphiQLPage),
                                !.ended = @ + 1]
          /\ pc' = "Terminal"
          /\ calls' = calls
     ELSE /\ calls' = [calls EXCEPT !.processRequest = @ + 1]
          /\ pc' = "Await"
          /\ res' = res
  /\ UNCHANGED <<context, result, stream, listener, closed, ws, args, resolutions,
                 closedAt, op, proc>>

ErrorPayload(message) == [errors |-> <<[message |-> message]>>]

\* processRequest refuses the request before it builds a context
processRequestRefuses ==
  /\ ~proc.exited
  /\ pc = "Await"
  /\ \E status \in RefusalStatuses :
       result' = Response(status, ErrorPayload("GraphQL request refused"))
  /\ pc' = "Resumed"
  /\ UNCHANGED <<req, context, res, stream, listener, closed, calls, ws, args,
                 resolutions,
                 closedAt, op, proc>>

\* processRequest builds the context and executes: a throwing context
\* factory makes a RESPONSE of status 500, else the operation decides
processRequestExecutes ==
  /\ ~proc.exited
  /\ pc = "Await"
  /\ LET c == contextFactory(req)
     IN  /\ calls' = [calls EXCEPT !.contextFactory = @ + 1,
                                   !.getUserId = @ + Len(c.resolver),
                                   !.execute = IF c.kind = "throw" THEN @ ELSE @ + 1]
         /\ resolutions' = resolutions \o c.resolver
         /\ args' = IF c.resolver = <<>> THEN args
                    ELSE [req |-> req, authToken |-> Undefined]
         /\ IF c.kind = "throw"
            THEN /\ context' = [state |-> "threw", error |-> c.error]
                 /\ result' = Response(500, ErrorPayload(c.error))
            ELSE /\ context' = [state |-> "built", value |-> c.value]
                 /\ result' \in {Response(200, [data |-> "data"]), Multipart, Push}
  /\ pc' = "Resumed"
  /\ UNCHANGED <<req, res, stream, listener, closed, ws,
                 closedAt, op, proc>>

MultipartHead ==
  [status |-> 200,
   headers |-> {<<"Connection", "keep-alive">>,
                <<"Content-Type", "multipart/mixed; boundary=\"-\"">>,
                <<"Transfer-Encoding", "chunked">>}]

WebSocketOnly == ErrorPayload("Subscriptions should be sent over WebSocket.")

\* the branch on result.type with the two error statuses taken for each
\* other: 422 for a RESPONSE, the engine's default for the rest
dispatch_StatusSwapped ==
  /\ ~proc.exited
  /\ pc = "Resumed"
  /\ IF result.type = "RESPONSE"
     THEN /\ res' = [res EXCEPT !.headers = @ \cup result.headers,
                                !.status = 422,
                                !.sent = Append(@, result.payload),
                                !.ended = @ + 1]
          /\ pc' = "Terminal"
          /\ UNCHANGED <<listener, calls>>
     ELSE IF result.type = "MULTIPART_RESPONSE"
     THEN /\ res' = [res EXCEPT !.head = <<MultipartHead>>,
                                !.writes = Append(@, <<"---">>)]
          /\ listener' = TRUE
          /\ calls' = [calls EXCEPT !.subscribe = @ + 1]
          /\ pc' = "Streaming"
     ELSE /\ res' = [res EXCEPT !.sent = Append(@, WebSocketOnly),
                                !.ended = @ + 1]
          /\ pc' = "Terminal"
          /\ UNCHANGED <<listener, calls>>
  /\ UNCHANGED <<req, context, result, stream, closed, ws, args, resolutions,
                 closedAt, op, proc>>

\* the branch on result.type with the else before the second if lost: a
\* RESPONSE falls into the final else as well
dispatch_NoElse ==
  /\ ~proc.exited
  /\ pc = "Resumed"
  /\ IF result.type = "RESPONSE"
     THEN /\ res' = [res EXCEPT !.headers = @ \cup result.headers,
                                !.status = 422,
                                !.sent = <<result.payload, WebSocketOnly>>,
                                !.ended = @ + 2]
          /\ pc' = "Terminal"
          /\ UNCHANGED <<listener, calls>>
     ELSE IF result.type = "MULTIPART_RESPONSE"
     THEN /\ res' = [res EXCEPT !.head = <<MultipartHead>>,
                                !.writes = Append(@, <<"---">>)]
          /\ listener' = TRUE
          /\ calls' = [calls EXCEPT !.subscribe = @ + 1]
          /\ pc' = "Streaming"
     ELSE /\ res' = [res EXCEPT !.status = 422,
                                !.sent = Append(@, WebSocketOnly),
                                !.ended = @ + 1]
          /\ pc' = "Terminal"
          /\ UNCHANGED <<listener, calls>>
  /\ UNCHANGED <<req, context, result, stream, closed, ws, args, resolutions,
                 closedAt, op, proc>>

\* the handler after the await: the branch on result.type, up to the await
\* of result.subscribe on a multipart result
dispatch ==
  /\ ~proc.exited
  /\ pc = "Resumed"
  /\ IF result.type = "RESPONSE"
     THEN /\ res' = [res EXCEPT !.headers = @ \cup result.headers,
                                !.status = result.status,
                                !.sent = Append(@, result.payload),
                                !.ended = @ + 1]
          /\ pc' = "Terminal"
          /\ UNCHANGED <<listener, calls>>
     ELSE IF result.type = "MULTIPART_RESPONSE"
     THEN /\ res' = [res EXCEPT !.head = <<MultipartHead>>,
                                !.writes = Append(@, <<"---">>)]
          /\ listener' = TRUE
          /\ calls' = [calls EXCEPT !.subscribe = @ + 1]
          /\ pc' = "Streaming"
     ELSE /\ res' = [res EXCEPT !.status = 422,
                                !.sent = Append(@, WebSocketOnly),
                                !.ended = @ + 1]
          /\ pc' = "Terminal"
          /\ UNCHANGED <<listener, calls>>
  /\ UNCHANGED <<req, context, result, stream, closed, ws, args, resolutions,
                 closedAt, op, proc>>

\* the part with Content-Length taken from the string's length, not from
\* the buffer's
Part_StringLength(r) ==
  LET chunk == JSONstringify(r)
      data == <<<<>>,
                <<"Content-Type: application/json; charset=utf-8">>,
                <<"Content-Length: ", ToString(StringLength(chunk))>>,
                <<>>,
                chunk>>
  IN  join(IF r.hasNext THEN Append(data, <<"---">>) ELSE data, CRLF)

\* the callback given to result.subscribe: one part for one result
Part(r) ==
  LET chunk == JSONstringify(r)
      data == <<<<>>,
                <<"Content-Type: application/json; charset=utf-8">>,
                <<"Content-Length: ", ToString(ByteLength(chunk))>>,
                <<>>,
                chunk>>
  IN  join(IF r.hasNext THEN Append(data, <<"---">>) ELSE data, CRLF)

\* the callback writing the newest part ahead of the parts already
\* written
onResult_Prepends(r) ==
  /\ ~proc.exited
  /\ pc = "Streaming"
  /\ ~stream.exhausted /\ ~stream.returned
  /\ Len(stream.yielded) < MaxChunks
  /\ Len(stream.yielded) + 1 = MaxChunks => ~r.hasNext
  /\ stream' = [stream EXCEPT !.yielded = Append(@, r), !.exhausted = ~r.hasNext]
  /\ res' = [res EXCEPT !.writes = <<Head(@), Part(r)>> \o Tail(@)]
  /\ UNCHANGED <<pc, req, context, result, listener, closed, calls, ws, args,
                 resolutions, closedAt, op, proc>>

\* the engine yields the next incremental result and calls the callback
onResult(r) ==
  /\ ~proc.exited
  /\ pc = "Streaming"
  /\ ~stream.exhausted /\ ~stream.returned
  /\ Len(stream.yielded) < MaxChunks
  /\ Len(stream.yielded) + 1 = MaxChunks => ~r.hasNext
  /\ stream' = [stream EXCEPT !.yielded = Append(@, r), !.exhausted = ~r.hasNext]
  /\ res' = [res EXCEPT !.writes = Append(@, Part(r))]
  /\ UNCHANGED <<pc, req, context, result, listener, closed, calls, ws, args,
                 resolutions,
                 closedAt, op, proc>>

ClosingBoundary == <<"\r\n-----\r\n">>

\* result.subscribe resolves (the source is exhausted or was returned) and
\* the handler writes the closing boundary and ends the response
subscribeResolves ==
  /\ ~proc.exited
  /\ pc = "Streaming"
  /\ stream.exhausted \/ stream.returned
  /\ res' = [res EXCEPT !.writes = Append(@, ClosingBoundary), !.ended = @ + 1]
  /\ pc' = "Terminal"
  /\ UNCHANGED <<req, context, result, stream, listener, closed, calls, ws, args,
                 resolutions,
                 closedAt, op, proc>>

\* the "close" listener registered but its body lost: result.unsubscribe
\* is not called
reqClose_NoUnsubscribe ==
  /\ ~proc.exited
  /\ pc \in {"Await", "Resumed", "Streaming", "Terminal"}
  /\ ~closed
  /\ closed' = TRUE
  /\ closedAt' = [pc |-> pc, parts |-> Len(stream.yielded), writes |-> Len(res.writes)]
  /\ UNCHANGED <<pc, req, context, result, res, stream, listener, calls, ws, args,
                 resolutions, op, proc>>

\* the request emits "close" (the client went away): the listener, when
\* registered, calls result.unsubscribe. closedAt keeps where the handler
\* stood and how much had been written
reqClose ==
  /\ ~proc.exited
  /\ pc \in {"Await", "Resumed", "Streaming", "Terminal"}
  /\ ~closed
  /\ closed' = TRUE
  /\ closedAt' = [pc |-> pc, parts |-> Len(stream.yielded), writes |-> Len(res.writes)]
  /\ IF listener
     THEN /\ calls' = [calls EXCEPT !.unsubscribe = @ + 1]
          /\ stream' = [stream EXCEPT !.returned = TRUE]
     ELSE UNCHANGED <<calls, stream>>
  /\ UNCHANGED <<pc, req, context, result, res, listener, ws, args, resolutions,
                 op, proc>>

(***************************************************************************)
(* The WebSocket server's onConnect.                                       *)
(***************************************************************************)
onConnectResult(connectionParams) ==
  IF Truthy(Get(connectionParams, "authToken"))
  THEN LET o == getUserId(Null, connectionParams.authToken)
       IN  IF o.kind = "return"
           THEN [kind |-> "return", resolver |-> <<o>>,
                 value |-> [prisma |-> "prisma", userId |-> o.value]]
           ELSE [kind |-> "throw", resolver |-> <<o>>, error |-> o.error]
  ELSE [kind |-> "return", resolver |-> <<>>, value |-> [prisma |-> "prisma"]]

onConnect(connectionParams) ==
  /\ pc = "Idle"
  /\ ws.state = "none"
  /\ proc.shutdown = <<>>
  /\ LET c == onConnectResult(connectionParams)
     IN  /\ ws' = IF c.kind = "return"
                  THEN [state |-> "open", connectionParams |-> connectionParams,
                        context |-> c.value]
                  ELSE [state |-> "refused", connectionParams |-> connectionParams,
                        error |-> c.error]
         /\ calls' = [calls EXCEPT !.getUserId = @ + Len(c.resolver)]
         /\ resolutions' = resolutions \o c.resolver
         /\ args' = IF c.resolver = <<>> THEN args
                    ELSE [req |-> Null, authToken |-> connectionParams.authToken]
  /\ UNCHANGED <<pc, req, context, result, res, stream, listener, closed,
                 closedAt, op, proc>>

(***************************************************************************)
(* The WebSocket server's onSubscribe.                                     *)
(***************************************************************************)
\* msg.payload.query: a document that parses and validates, one that
\* parses and fails validation, one that does not parse
Documents == {"valid", "invalid", "unparsable"}

\* parse(msg.payload.query) throws on a syntax error
parse(query) ==
  IF query = "unparsable"
  THEN [ok |-> FALSE, error |-> "Syntax Error"]
  ELSE [ok |-> TRUE, document |-> query]

\* validate(schema, document): the list of validation errors
validate(document) ==
  IF document = "invalid" THEN <<[message |-> "Validation error"]>> ELSE <<>>

\* the contextFactory of getEnveloped() (useSchema, useLogger, useTiming):
\* the initial context, to which these plugins add no field
envelopContextFactory(initialContext) == initialContext

\* onSubscribe returning the arguments whatever validate found
onSubscribeResult_ErrorsIgnored(connection, msg) ==
  LET parsed == parse(msg.payload.query)
  IN  IF ~parsed.ok
      THEN [kind |-> "throw", error |-> parsed.error]
      ELSE [kind |-> "args",
            args |-> [operationName |-> msg.payload.operationName,
                      document |-> parsed.document,
                      contextValue |->
                        envelopContextFactory(
                          [connectionParams |-> connection.connectionParams,
                           socket |-> "socket", request |-> "request"])]]

\* onSubscribe(ctx, msg): the validation errors, or the execution arguments
onSubscribeResult(connection, msg) ==
  LET parsed == parse(msg.payload.query)
  IN  IF ~parsed.ok
      THEN [kind |-> "throw", error |-> parsed.error]
      ELSE LET a == [operationName |-> msg.payload.operationName,
                     document |-> parsed.document,
                     contextValue |->
                       envelopContextFactory(
                         [connectionParams |-> connection.connectionParams,
                          socket |-> "socket", request |-> "request"])]
               errors == validate(a.document)
           IN  IF Len(errors) # 0
               THEN [kind |-> "errors", errors |-> errors]
               ELSE [kind |-> "args", args |-> a]

SubscribeMessages ==
  {[payload |-> [operationName |-> "op", query |-> q]] : q \in Documents}

\* a subscribe message arrives on the open connection
onSubscribe(msg) ==
  /\ ~proc.exited
  /\ ws.state = "open"
  /\ op.state = "none"
  /\ LET r == onSubscribeResult(ws, msg)
     IN  op' = [state |-> "returned", msg |-> msg, result |-> r]
  /\ UNCHANGED <<pc, req, context, result, res, stream, listener, closed, calls, ws,
                 args, resolutions, closedAt, proc>>

\* graphql-ws goes on to execute (or subscribe) with the arguments that
\* onSubscribe returned; errors and a throw end the operation
wsExecute ==
  /\ ~proc.exited
  /\ ws.state = "open"
  /\ op.state = "returned"
  /\ op.result.kind = "args"
  /\ op' = [op EXCEPT !.state = "executing"]
  /\ calls' = [calls EXCEPT !.execute = @ + 1]
  /\ UNCHANGED <<pc, req, context, result, res, stream, listener, closed, ws,
                 args, resolutions, closedAt, proc>>

(***************************************************************************)
(* The process and the interrupt signal.                                   *)
(***************************************************************************)
ShutdownSteps ==
  <<"graphqlWs.dispose", "httpServer.close", "ioServer.close",
    "socketIoHttpServer.close">>

\* the listener registered with process.on: it stays registered and runs
\* on every SIGINT
sigint_Repeats ==
  /\ ~proc.exited
  /\ proc.sigint
  /\ Len(proc.shutdown) < 2 * Len(ShutdownSteps)
  /\ proc' = [proc EXCEPT !.shutdown = @ \o ShutdownSteps]
  /\ ws' = IF ws.state = "open" THEN [ws EXCEPT !.state = "closed"] ELSE ws
  /\ UNCHANGED <<pc, req, context, result, res, stream, listener, closed, calls,
                 args, resolutions, closedAt, op>>

\* SIGINT while the process.once listener is registered: the listener is
\* removed and runs, to its end
sigint ==
  /\ ~proc.exited
  /\ proc.sigint
  /\ proc' = [proc EXCEPT !.sigint = FALSE, !.shutdown = @ \o ShutdownSteps]
  /\ ws' = IF ws.state = "open" THEN [ws EXCEPT !.state = "closed"] ELSE ws
  /\ UNCHANGED <<pc, req, context, result, res, stream, listener, closed, calls,
                 args, resolutions, closedAt, op>>

\* SIGINT with no listener left: the signal's default action ends the process
sigintDefault ==
  /\ ~proc.exited
  /\ ~proc.sigint
  /\ proc' = [proc EXCEPT !.exited = TRUE]
  /\ UNCHANGED <<pc, req, context, result, res, stream, listener, closed, calls, ws,
                 args, resolutions, closedAt, op>>

\* the listeners are closed and no request is in flight: the event loop
\* runs empty and the process exits
eventLoopDrains ==
  /\ ~proc.exited
  /\ proc.shutdown # <<>>
  /\ pc \in {"Idle", "Terminal"}
  /\ proc' = [proc EXCEPT !.exited = TRUE]
  /\ UNCHANGED <<pc, req, context, result, res, stream, listener, closed, calls, ws,
                 args, resolutions, closedAt, op>>

ExecutionResults == [data : ChunkData, hasNext : BOOLEAN]

Next ==
  \/ \E request \in Requests : handler(request)
  \/ processRequestRefuses
  \/ processRequestExecutes
  \/ dispatch
  \/ \E r \in ExecutionResults : onResult(r)
  \/ subscribeResolves
  \/ reqClose
  \/ \E connectionParams \in ConnectionParams : onConnect(connectionParams)
  \/ \E msg \in SubscribeMessages : onSubscribe(msg)
  \/ wsExecute
  \/ sigint
  \/ sigintDefault
  \/ eventLoopDrains

Spec == Init /\ [][Next]_vars

(***************************************************************************)
(* The identity resolver alone: a credential is drawn, and getUserId is    *)
(* applied to it again and again.                                          *)
(***************************************************************************)
\* header maps as getUserId reads them: authorization present or not
ResolverRequests ==
  {r \in Requests : r.method = "POST" /\ "accept" \notin DOMAIN r.headers}

\* the raw-token form (req null), and the header-map form with the second
\* argument absent or given as well
ResolverArgs ==
  {[req |-> Null, authToken |-> t] : t \in {Undefined} \cup {Str(s) : s \in Strings}}
    \cup {[req |-> r, authToken |-> t] :
            r \in ResolverRequests,
            t \in {Undefined, Str(jwt_sign([userId |-> Num(2)], APP_SECRET))}}

ResolverInit ==
  /\ pc = "Idle"
  /\ req = Null
  /\ context = NoContext
  /\ result = NoResult
  /\ res = FreshResponse
  /\ stream = NoStream
  /\ listener = FALSE
  /\ closed = FALSE
  /\ calls = NoCalls
  /\ ws = [state |-> "none"]
  /\ args \in ResolverArgs
  /\ resolutions = <<>>
  /\ closedAt = NotClosed
  /\ op = NoOperation
  /\ proc = Started

resolve ==
  /\ Len(resolutions) < MaxResolutions
  /\ resolutions' = Append(resolutions, getUserId(args.req, args.authToken))
  /\ calls' = [calls EXCEPT !.getUserId = @ + 1]
  /\ UNCHANGED <<pc, req, context, result, res, stream, listener, closed, ws, args,
                 closedAt, op, proc>>

ResolverNext == resolve

ResolverSpec == ResolverInit /\ [][ResolverNext]_vars

(***************************************************************************)
(* Properties of the identity resolver (checked under ResolverSpec).       *)
(***************************************************************************)
\* the header-map form: the authorization value of the call, if any
HasAuthorization(a) == Truthy(a.req) /\ "authorization" \in DOMAIN a.req.headers
AuthorizationIs(a, s) == HasAuthorization(a) /\ a.req.headers.authorization = Str(s)

\* a token that verifies against the shared secret
Genuine(piece) == piece.t = "jwt" /\ piece.sig = Hmac(piece.payload, APP_SECRET)

\* C1: a header map whose authorization is "Bearer " followed by a token
\* signed with the shared secret over a payload with subject S resolves to
\* exactly S, on the first resolution and on every repeated one.
C1_RoundTrip ==
  \A S \in Subjects :
    AuthorizationIs(args, <<Bearer>> \o jwt_sign([userId |-> S], APP_SECRET))
      => \A i \in 1..Len(resolutions) :
           resolutions[i].kind = "return" /\ resolutions[i].value = S

C1_Witness ==
  /\ AuthorizationIs(args, <<Bearer>> \o jwt_sign([userId |-> Num(2)], APP_SECRET))
  /\ Len(resolutions) = 2
  /\ resolutions[2].kind = "return"

\* C4: an authorization of exactly "Bearer " fails with 'No token found',
\* no token having been handed to signature verification, and yields no
\* identity.
C4_EmptyTokenFails ==
  AuthorizationIs(args, <<Bearer>>)
    => \A i \in 1..Len(resolutions) :
         /\ resolutions[i].kind = "throw"
         /\ resolutions[i].error = "No token found"
         /\ resolutions[i].verified = <<>>

C4_Witness ==
  /\ AuthorizationIs(args, <<Bearer>>)
  /\ Len(resolutions) >= 1
  /\ resolutions[1].kind = "throw"

\* the non-empty token strings that do not verify: malformed strings, and
\* tokens signed under another secret or altered after signing
BadTokens == {s \in Strings : s # <<>> /\ ~(Len(s) = 1 /\ Genuine(s[1]))}

\* the call presents the token: as the raw token, or in the header map
\* after the scheme prefix (or bare, when it holds no scheme prefix itself)
Presents(a, s) ==
  \/ ~Truthy(a.req) /\ a.authToken = Str(s)
  \/ AuthorizationIs(a, <<Bearer>> \o s)
  \/ AuthorizationIs(a, s) /\ \A i \in 1..Len(s) : s[i] # Bearer

\* C5: a token that does not verify against the shared secret, or that
\* cannot be decoded, makes resolution fail with the verification error
\* (InvalidToken) and yields no identity, in the header-map form and in the
\* raw-token form.
C5_InvalidTokenFails ==
  \A s \in BadTokens :
    Presents(args, s)
      => \A i \in 1..Len(resolutions) :
           /\ resolutions[i].kind = "throw"
           /\ resolutions[i].error = "JsonWebTokenError"

C5_Witness ==
  /\ \E s \in BadTokens :
       /\ Len(s) = 1 /\ s[1].t = "jwt"
       /\ AuthorizationIs(args, <<Bearer>> \o s)
  /\ Len(resolutions) >= 1
  /\ resolutions[1].kind = "throw"

\* the tokens signed with the shared secret whose payload has no userId
NoSubjectTokens ==
  {s \in Strings : Len(s) = 1 /\ Genuine(s[1]) /\ "userId" \notin DOMAIN s[1].payload}

\* C6: a validly signed token whose payload has no userId makes resolution
\* fail; getUserId never returns an absent identity as a success.
C6_MissingSubjectFails ==
  \A i \in 1..Len(resolutions) :
    /\ (\E s \in NoSubjectTokens : Presents(args, s)) => resolutions[i].kind = "throw"
    /\ resolutions[i].kind = "return" => resolutions[i].value # Undefined

\* C7: with neither a header map (req null) nor a raw token (absent or
\* empty), getUserId fails with 'Not authenticated' and yields no identity.
C7_NoCredentialFails ==
  (~Truthy(args.req) /\ ~Truthy(args.authToken))
    => \A i \in 1..Len(resolutions) :
         /\ resolutions[i].kind = "throw"
         /\ resolutions[i].error = "Not authenticated"
         /\ resolutions[i].verified = <<>>

C7_Witness ==
  /\ args.req = Null
  /\ args.authToken = Str(<<>>)
  /\ Len(resolutions) >= 1
  /\ resolutions[1].kind = "throw"

(***************************************************************************)
(* Properties of the transports (checked under Spec).                      *)
(***************************************************************************)
\* the string holds a token that verifies against the shared secret and
\* whose payload's userId is v
CarriesVerified(s, v) ==
  \E i \in 1..Len(s) : Genuine(s[i]) /\ Get(s[i].payload, "userId") = v

IsIdentity(v) == v # Null /\ v # Undefined

\* C2: an identity in an execution context (the HTTP context's userId, the
\* userId onConnect returned) is null or absent, or it is the userId of a
\* token of the request's credential that verifies against the shared
\* secret; the same holds of every value getUserId returned.
C2_IdentityVerified ==
  /\ (context.state = "built" /\ IsIdentity(context.value.userId))
       => /\ "authorization" \in DOMAIN req.headers
          /\ CarriesVerified(req.headers.authorization.s, context.value.userId)
  /\ (ws.state = "open" /\ IsIdentity(Get(ws.context, "userId")))
       => /\ "authToken" \in DOMAIN ws.connectionParams
          /\ CarriesVerified(ws.connectionParams.authToken.s, ws.context.userId)
  /\ \A i \in 1..Len(resolutions) :
       (resolutions[i].kind = "return" /\ IsIdentity(resolutions[i].value))
         => /\ Len(resolutions[i].verified) = 1
            /\ CarriesVerified(resolutions[i].verified[1].s, resolutions[i].value)

C2_Witness ==
  /\ context.state = "built"
  /\ context.value.userId = Num(1)
  /\ pc = "Terminal"

C8_DocsPageOnly ==
  (pc # "Idle" /\ shouldRenderGraphiQL(req))
    => /\ pc = "Terminal"
       /\ res.type = "text/html"
       /\ res.sent = <<GraphiQLPage>>
       /\ res.ended = 1
       /\ res.writes = <<>>
       /\ context = NoContext
       /\ result = NoResult
       /\ calls.processRequest = 0
       /\ calls.contextFactory = 0
       /\ calls.getUserId = 0
       /\ resolutions = <<>>

C8_Witness ==
  /\ pc = "Terminal"
  /\ shouldRenderGraphiQL(req)
  /\ "authorization" \in DOMAIN req.headers
  /\ req.headers.authorization.s = <<Bearer>> \o jwt_sign([userId |-> Num(1)], APP_SECRET)
  /\ closed

\* C9: once the handler has branched on the result, the status is 422
\* exactly when the result is neither a RESPONSE nor a MULTIPART_RESPONSE,
\* and then the body sent is one error with the message "Subscriptions
\* should be sent over WebSocket." and the request is terminal.
C9_Status422 ==
  pc \in {"Streaming", "Terminal"}
    => LET mismatch == result.type \notin {"none", "RESPONSE", "MULTIPART_RESPONSE"}
       IN  /\ (res.status = 422) <=> mismatch
           /\ mismatch
                => /\ pc = "Terminal"
                   /\ res.sent =
                        <<[errors |->
                             <<[message |->
                                  "Subscriptions should be sent over WebSocket."]>>]>>
                   /\ Len(res.sent[1].errors) = 1
                   /\ res.ended = 1
                   /\ res.writes = <<>>

C9_Witness ==
  /\ pc = "Terminal"
  /\ result.type = "PUSH"
  /\ res.status = 422

\* the frame of one part: the two header fields, a blank line and the body,
\* then the delimiter when more parts follow
PartHeader(length) ==
  <<"\r\n", "Content-Type: application/json; charset=utf-8", "\r\n",
    "Content-Length: ", ToString(length), "\r\n", "\r\n">>

FramedPart(frame, r) ==
  LET body == JSONstringify(r)
  IN  frame = PartHeader(ByteLength(body)) \o body
                \o (IF r.hasNext THEN <<"\r\n", "---">> ELSE <<>>)

\* C10: when a stream of n >= 1 results has completed and the client has
\* not disconnected, the writes are the opening delimiter, then n parts in
\* all, each with the JSON content type and a Content-Length equal to the
\* byte length of its serialized result, then the closing boundary, once
\* and last, and the response was ended once.
C10_StreamFraming ==
  (pc = "Terminal" /\ result.type = "MULTIPART_RESPONSE" /\ ~closed)
    => LET n == Len(stream.yielded)
       IN  /\ n >= 1
           /\ Len(res.writes) = n + 2
           /\ res.writes[1] = <<"---">>
           /\ \A i \in 1..n : FramedPart(res.writes[i + 1], stream.yielded[i])
           /\ res.writes[n + 2] = <<"\r\n-----\r\n">>
           /\ \A i \in 1..(n + 1) : res.writes[i] # <<"\r\n-----\r\n">>
           /\ res.ended = 1
           /\ res.sent = <<>>

C10_Witness ==
  /\ pc = "Terminal"
  /\ result.type = "MULTIPART_RESPONSE"
  /\ ~closed
  /\ Len(stream.yielded) = 2
  /\ stream.yielded[1].data = <<NonAscii>>

(***************************************************************************)
(* Properties of the streaming response under a disconnect.                *)
(***************************************************************************)
\* the frames written that are parts: neither a delimiter nor the closing
\* boundary
PartsWritten ==
  Cardinality({i \in 1..Len(res.writes) :
                 res.writes[i] # <<"---">> /\ res.writes[i] # <<"\r\n-----\r\n">>})

\* C11: when the client disconnects on a streaming response after k parts
\* were written, result.unsubscribe is invoked exactly once, and no part
\* for a later chunk is ever written: the engine yielded k results and k
\* parts are on the response, from then on.
C11_DisconnectUnsubscribesOnce ==
  closedAt.pc = "Streaming"
    => /\ calls.unsubscribe = 1
       /\ Len(stream.yielded) = closedAt.parts
       /\ PartsWritten = closedAt.parts

C11_Witness ==
  /\ closedAt.pc = "Streaming"
  /\ closedAt.parts = 1
  /\ stream.yielded[1].hasNext
  /\ pc = "Terminal"

\* C12: after the client has disconnected nothing more is written to the
\* response: no part, no delimiter, no closing boundary.
C12_NoWriteAfterDisconnect ==
  closedAt.pc = "Streaming" => Len(res.writes) = closedAt.writes

\* the parts on the response, in the order they were written
IsPartFrame(w) == w # <<"---">> /\ w # <<"\r\n-----\r\n">>
PartFrames == SelectSeq(res.writes, IsPartFrame)

\* C13: on the streaming path the parts on the response are, in order, the
\* parts of the results the engine yielded, one part for each result: the
\* i-th part frames the i-th result, none is merged and none is dropped.
C13_PartsInEngineOrder ==
  result.type = "MULTIPART_RESPONSE"
    => /\ Len(PartFrames) = Len(stream.yielded)
       /\ \A i \in 1..Len(stream.yielded) : FramedPart(PartFrames[i], stream.yielded[i])

C13_Witness ==
  /\ pc = "Terminal"
  /\ result.type = "MULTIPART_RESPONSE"
  /\ Len(stream.yielded) = 2
  /\ stream.yielded[1].data # stream.yielded[2].data

(***************************************************************************)
(* Properties of the WebSocket transport.                                  *)
(***************************************************************************)
\* C14: the context of a subscribe operation is built by resolving the
\* connection's authToken: on a connection whose handshake gave a token
\* signed with the shared secret over subject S, the contextValue of
\* every subscribe operation carries the identity S.
C14_SubscribeContextIdentity ==
  (op.state # "none" /\ op.result.kind = "args")
    => \A S \in Subjects :
         Get(ws.connectionParams, "authToken") = Str(jwt_sign([userId |-> S], APP_SECRET))
           => Get(op.result.args.contextValue, "userId") = S

\* C15: when validation of the subscribe message's document yields an
\* error, onSubscribe returns the validation errors and the operation is
\* never executed; the execution arguments are returned, and the operation
\* executed, only for a document without validation error.
C15_ValidationShortCircuits ==
  op.state # "none"
    => LET document == op.msg.payload.query
       IN  /\ document = "invalid"
             => /\ op.result.kind = "errors"
                /\ op.result.errors # <<>>
                /\ op.result.errors = validate(document)
                /\ op.state # "executing"
                /\ calls.execute = 0
           /\ op.result.kind = "args" => validate(op.result.args.document) = <<>>
           /\ op.state = "executing" => op.result.kind = "args"

C15_Witness ==
  /\ op.state = "returned"
  /\ op.result.kind = "errors"
  /\ Len(op.result.errors) = 1
  /\ "authToken" \in DOMAIN ws.connectionParams

(***************************************************************************)
(* Properties of the shutdown.                                             *)
(***************************************************************************)
\* C16: on SIGINT the graphql-ws server is disposed first, then the HTTP
\* listener, the socket.io server and the socket.io HTTP listener are
\* closed, in this order; the sequence runs at most once however many
\* signals arrive, and the process exits only after all of them.
C16_ShutdownOrder ==
  /\ proc.shutdown \in
       {<<>>,
        <<"graphqlWs.dispose", "httpServer.close", "ioServer.close",
          "socketIoHttpServer.close">>}
  /\ proc.shutdown # <<>> => ~proc.sigint
  /\ proc.exited => Len(proc.shutdown) = 4

C16_Witness ==
  /\ proc.exited
  /\ proc.shutdown[1] = "graphqlWs.dispose"
  /\ pc = "Streaming"

(***************************************************************************)
(* Properties of the HTTP path as a whole.                                 *)
(***************************************************************************)
\* C17: on the HTTP path a getUserId that throws during context
\* construction is not caught by the context factory: the error reaches
\* processRequest, nothing is executed, the result is the engine's
\* RESPONSE, and the request ends in that response, not in status 422.
C17_ResolverFailurePropagates ==
  (calls.contextFactory = 1 /\ resolutions # <<>> /\ resolutions[1].kind = "throw")
    => /\ context.state = "threw"
       /\ context.error = resolutions[1].error
       /\ calls.execute = 0
       /\ result.type = "RESPONSE"
       /\ pc \in {"Resumed", "Terminal"}
       /\ pc = "Terminal"
            => /\ res.status = result.status
               /\ res.status # 422
               /\ res.sent = <<result.payload>>
               /\ res.ended = 1

C17_Witness ==
  /\ pc = "Terminal"
  /\ context.state = "threw"
  /\ context.error = "JsonWebTokenError"
  /\ res.ended = 1

\* C18: for a non-empty authorization value that does not start with
\* "Bearer ", the token handed to signature verification is the whole
\* value, unmodified.
C18_NoPrefixTokenUnmodified ==
  \A s \in Strings :
    (s # <<>> /\ s[1] # Bearer /\ AuthorizationIs(args, s))
      => \A i \in 1..Len(resolutions) : resolutions[i].verified = <<Str(s)>>

\* C19: on a streaming response, a disconnect at any moment after the
\* request was received and before the stream completed, the await of
\* processRequest included, has caused result.unsubscribe to be invoked by
\* the time the request is terminal.
C19_DisconnectUnsubscribes ==
  (pc = "Terminal" /\ result.type = "MULTIPART_RESPONSE"
     /\ closedAt.pc \in {"Await", "Resumed", "Streaming"})
    => calls.unsubscribe >= 1

\* the four response modes, as the response shows them
DocsPage ==
  res.type = "text/html" /\ res.sent = <<GraphiQLPage>> /\ res.writes = <<>>
SingleResponse ==
  /\ result.type = "RESPONSE"
  /\ res.type # "text/html"
  /\ res.sent = <<result.payload>> /\ res.status = result.status
  /\ res.writes = <<>> /\ res.head = <<>>
StreamingResponse ==
  /\ result.type = "MULTIPART_RESPONSE"
  /\ res.sent = <<>> /\ res.head # <<>> /\ res.writes # <<>>
ProtocolError ==
  /\ res.status = 422
  /\ res.sent = <<[errors |-> <<[message |->
                     "Subscriptions should be sent over WebSocket."]>>]>>
  /\ res.writes = <<>> /\ res.head = <<>>

ModesTaken ==
  Cardinality({m \in {"docs", "single", "streaming", "error"} :
                 \/ m = "docs" /\ DocsPage
                 \/ m = "single" /\ SingleResponse
                 \/ m = "streaming" /\ StreamingResponse
                 \/ m = "error" /\ ProtocolError})

\* C20: a terminal request took exactly one of the four response modes and
\* its response was finished exactly once; a response is never finished
\* twice, and once the request is terminal the response does not change.
C20_OneModeFinishedOnce ==
  /\ [](/\ res.ended <= 1
        /\ pc = "Terminal" => ModesTaken = 1 /\ res.ended = 1
        /\ pc # "Terminal" => res.ended = 0)
  /\ [][pc = "Terminal" => pc' = "Terminal" /\ res' = res]_vars

C20_Witness ==
  /\ pc = "Terminal"
  /\ StreamingResponse
  /\ closed
  /\ Len(stream.yielded) = 2

====
